---- MODULE Spec2Model ----
(***************************************************************************)
(* Model of pages/ssr.tsx of the ab-testing-statsig example:               *)
(*   - EdgeConfigDataAdapter (constructor, get, set, initialize, shutdown, *)
(*     supportsPollingUpdatesFor) over a remote Edge Config store;         *)
(*   - getServerSideProps, the per-request handler;                        *)
(*   - BucketPage, the renderer, and its resetBucket callback.             *)
(* Text (the output of JSON.stringify) is a sequence of one-character      *)
(* strings; error messages are strings built by concatenation.             *)
(***************************************************************************)
EXTENDS Integers, Sequences, FiniteSets, TLC

VARIABLES
    store,              \* the remote Edge Config store: item name -> JSON value or Undefined
    configSpecsKey,     \* EdgeConfigDataAdapter.configSpecsKey
    flag,               \* EdgeConfigDataAdapter.supportConfigSpecPolling
    call,               \* the last event: the adapter call that has just completed
    resp,               \* what that call produced (resolved value or rejection)
    reads,              \* remote reads that call performed
    lastInit,           \* history: what the most recent initialize() of this adapter read
    pc,                 \* position of the page request (getServerSideProps / render)
    bucket,             \* the local `bucket` of getServerSideProps
    props,              \* the props object getServerSideProps returned
    inFlight,           \* I/O operations started and not yet completed
    cookie,             \* the UID cookie of the browser
    displayed,          \* what the <pre> of BucketPage shows after "bucket: "
    GROUP_PARAM_FALLBACK \* the sentinel imported from ../lib/constants

vars == <<store, configSpecsKey, flag, call, resp, reads, lastInit,
          pc, bucket, props, inFlight, cookie, displayed, GROUP_PARAM_FALLBACK>>

adapterVars == <<configSpecsKey, flag, call, resp, reads, lastInit>>
pageVars == <<pc, bucket, props, inFlight, cookie, displayed>>

----------------------------------------------------------------------------
(* Bounds of the JSON values the store may hold. *)
MaxStrLen == 1
MaxArrLen == 1

(* JSON values, tagged.  Undefined is what EdgeConfigClient.get resolves to
   for an item the store does not hold. *)
Undefined == [t |-> "undefined"]
JNull == [t |-> "null"]
JBool(b) == [t |-> "bool", b |-> b]
JNum(n) == [t |-> "num", n |-> n]
JStr(s) == [t |-> "str", s |-> s]
JArr(a) == [t |-> "arr", a |-> a]
JObj(m) == [t |-> "obj", m |-> m]

Chars == {"a", "\"", "\\"}
Nums == {0, 1, 12}
SeqsUpTo(S, n) == UNION {[1..k -> S] : k \in 0..n}
Strings == SeqsUpTo(Chars, MaxStrLen)
Scalars ==
    {JNull} \cup {JBool(b) : b \in BOOLEAN} \cup {JNum(n) : n \in Nums}
        \cup {JStr(s) : s \in Strings}
Elems == {JNull, JNum(0), JStr(<<"\"">>)}
MemberKeys == {<<"a">>}
Members == {<<k, e>> : k \in MemberKeys, e \in Elems}
Values ==
    Scalars \cup {JArr(a) : a \in SeqsUpTo(Elems, MaxArrLen)}
        \cup {JObj(m) : m \in SeqsUpTo(Members, 1)}

----------------------------------------------------------------------------
(* JSON.stringify, as the engine computes it for JSON values. *)
DigitChars == <<"0", "1", "2", "3", "4", "5", "6", "7", "8", "9">>

RECURSIVE NumText(_)
NumText(n) ==
    IF n < 10 THEN <<DigitChars[n + 1]>>
    ELSE NumText(n \div 10) \o <<DigitChars[(n % 10) + 1]>>

RECURSIVE Escape(_)
Escape(s) ==
    IF s = <<>> THEN <<>>
    ELSE (IF Head(s) \in {"\"", "\\"} THEN <<"\\", Head(s)>> ELSE <<Head(s)>>)
             \o Escape(Tail(s))

Quote(s) == <<"\"">> \o Escape(s) \o <<"\"">>

RECURSIVE JSONstringify(_)
RECURSIVE JoinElems(_)
RECURSIVE JoinMembers(_)
JoinElems(a) ==
    IF a = <<>> THEN <<>>
    ELSE IF Len(a) = 1 THEN JSONstringify(a[1])
    ELSE JSONstringify(a[1]) \o <<",">> \o JoinElems(Tail(a))

JoinMembers(m) ==
    IF m = <<>> THEN <<>>
    ELSE LET one == Quote(m[1][1]) \o <<":">> \o JSONstringify(m[1][2])
         IN IF Len(m) = 1 THEN one ELSE one \o <<",">> \o JoinMembers(Tail(m))

JSONstringify(d) ==
    CASE d.t = "null" -> <<"n", "u", "l", "l">>
      [] d.t = "bool" -> IF d.b THEN <<"t", "r", "u", "e">>
                                ELSE <<"f", "a", "l", "s", "e">>
      [] d.t = "num" -> NumText(d.n)
      [] d.t = "str" -> Quote(d.s)
      [] d.t = "arr" -> <<"[">> \o JoinElems(d.a) \o <<"]">>
      [] d.t = "obj" -> <<"{">> \o JoinMembers(d.m) \o <<"}">>

(* JSON.parse: how a reader of the text recovers the document.  Used only to
   state properties of the text get returns. *)
ParseError == [t |-> "error"]
Fail == [ok |-> FALSE]
Ok(v, rest) == [ok |-> TRUE, val |-> v, rest |-> rest]
StartsWith(s, p) == Len(s) >= Len(p) /\ SubSeq(s, 1, Len(p)) = p
Drop(s, n) == SubSeq(s, n + 1, Len(s))
IsDigit(c) == \E i \in 1..10 : DigitChars[i] = c
DigitValue(c) == (CHOOSE i \in 1..10 : DigitChars[i] = c) - 1

RECURSIVE ParseDigits(_, _)
ParseDigits(s, n) ==
    IF s # <<>> /\ IsDigit(Head(s))
    THEN ParseDigits(Tail(s), 10 * n + DigitValue(Head(s)))
    ELSE Ok(JNum(n), s)

RECURSIVE ParseChars(_, _)
ParseChars(s, acc) ==
    IF s = <<>> THEN Fail
    ELSE IF Head(s) = "\"" THEN Ok(acc, Tail(s))
    ELSE IF Head(s) = "\\"
         THEN IF Len(s) >= 2 /\ s[2] \in {"\"", "\\"}
              THEN ParseChars(Drop(s, 2), Append(acc, s[2]))
              ELSE Fail
    ELSE ParseChars(Tail(s), Append(acc, Head(s)))

RECURSIVE ParseValue(_)
RECURSIVE ParseElements(_, _)
RECURSIVE ParseMembers(_, _)
ParseElements(s, acc) ==
    LET r == ParseValue(s)
    IN IF ~r.ok \/ r.rest = <<>> THEN Fail
       ELSE IF Head(r.rest) = "," THEN ParseElements(Tail(r.rest), Append(acc, r.val))
       ELSE IF Head(r.rest) = "]" THEN Ok(JArr(Append(acc, r.val)), Tail(r.rest))
       ELSE Fail

ParseMembers(s, acc) ==
    IF s = <<>> \/ Head(s) # "\"" THEN Fail
    ELSE LET k == ParseChars(Tail(s), <<>>)
         IN IF ~k.ok \/ k.rest = <<>> \/ Head(k.rest) # ":" THEN Fail
            ELSE LET r == ParseValue(Tail(k.rest))
                 IN IF ~r.ok \/ r.rest = <<>> THEN Fail
                    ELSE IF Head(r.rest) = ","
                         THEN ParseMembers(Tail(r.rest), Append(acc, <<k.val, r.val>>))
                    ELSE IF Head(r.rest) = "}"
                         THEN Ok(JObj(Append(acc, <<k.val, r.val>>)), Tail(r.rest))
                    ELSE Fail

ParseValue(s) ==
    IF s = <<>> THEN Fail
    ELSE IF StartsWith(s, <<"n", "u", "l", "l">>) THEN Ok(JNull, Drop(s, 4))
    ELSE IF StartsWith(s, <<"t", "r", "u", "e">>) THEN Ok(JBool(TRUE), Drop(s, 4))
    ELSE IF StartsWith(s, <<"f", "a", "l", "s", "e">>) THEN Ok(JBool(FALSE), Drop(s, 5))
    ELSE IF IsDigit(Head(s)) THEN ParseDigits(s, 0)
    ELSE IF Head(s) = "\""
         THEN LET r == ParseChars(Tail(s), <<>>)
              IN IF r.ok THEN Ok(JStr(r.val), r.rest) ELSE Fail
    ELSE IF Head(s) = "["
         THEN IF StartsWith(s, <<"[", "]">>) THEN Ok(JArr(<<>>), Drop(s, 2))
              ELSE ParseElements(Tail(s), <<>>)
    ELSE IF Head(s) = "{"
         THEN IF StartsWith(s, <<"{", "}">>) THEN Ok(JObj(<<>>), Drop(s, 2))
              ELSE ParseMembers(Tail(s), <<>>)
    ELSE Fail

JSONparse(text) ==
    LET r == ParseValue(text)
    IN IF r.ok /\ r.rest = <<>> THEN r.val ELSE ParseError

(* JavaScript truthiness, as `if (data)` tests it. *)
Truthy(d) ==
    CASE d.t = "undefined" -> FALSE
      [] d.t = "null" -> FALSE
      [] d.t = "bool" -> d.b
      [] d.t = "num" -> d.n # 0
      [] d.t = "str" -> d.s # <<>>
      [] OTHER -> TRUE

----------------------------------------------------------------------------
(* The remote store and the adapter's view of it. *)
ConfigSpecsKeyName == "statsig.cache"
ItemKey == "EDGE_CONFIG_ITEM_KEY"
Names == {ItemKey, ConfigSpecsKeyName}
Keys == {ConfigSpecsKeyName, ItemKey, "statsig.id_lists"}
StoreValues == Values \cup {Undefined}
(* What the store may hold under each name: any value under the item name the
   deployment configures, and no item or one other document under the name
   "statsig.cache" itself. *)
ItemValues(name) ==
    IF name = ItemKey THEN StoreValues ELSE {Undefined, JStr(<<"a">>)}
Stores == {s \in [Names -> StoreValues] : \A n \in Names : s[n] \in ItemValues(n)}

NoResp == [outcome |-> "none"]
Resolved(v) == [outcome |-> "resolved", value |-> v]
Rejected(e) == [outcome |-> "rejected", reason |-> e]
ReadFailure == "edge config read failed"

(* edgeConfigClient.get(name): resolves to the item (undefined when the store
   has none), or rejects (network, auth). *)
ReadOutcomes(name) ==
    {[ok |-> TRUE, data |-> IF name \in DOMAIN store THEN store[name] ELSE Undefined],
     [ok |-> FALSE, data |-> Undefined]}

ReadKind(r) == IF r.ok THEN "resolved" ELSE "rejected"

(* Variant: the configured lookup name is accepted as a key too. *)
SupportedKey_orLookupName(key) == key \in {"statsig.cache", configSpecsKey}

SupportedKey(key) == key = "statsig.cache"

(* Variant: `if (!data)` in place of `data === undefined`. *)
IsMissing_falsy(data) == ~Truthy(data)

IsMissing(data) == data = Undefined

UnsupportedError == [error |-> "Edge Config Adapter Only Supports Config Specs"]

(* Variant: the message names the lookup name, not the requested key. *)
NotFoundError_lookupName(key) ==
    [error |-> "key (" \o configSpecsKey \o ") does not exist"]

NotFoundError(key) == [error |-> "key (" \o key \o ") does not exist"]

GetResponse(key, data) ==
    IF IsMissing(data) THEN NotFoundError(key)
    ELSE [result |-> JSONstringify(data)]

(* Variant: the flag is assigned the outcome of every initialize. *)
InitializeFlag_assign(f, data) == Truthy(data)

InitializeFlag(f, data) == IF Truthy(data) THEN TRUE ELSE f

PollingSupport(key, f) == IF key = "statsig.cache" THEN f ELSE TRUE

constructor(key) ==
    /\ configSpecsKey' = key
    /\ flag' = FALSE
    /\ lastInit' = "none"
    /\ call' = [op |-> "constructor", key |-> key, read |-> "none"]
    /\ resp' = NoResp
    /\ reads' = 0
    /\ UNCHANGED store

get(key) ==
    /\ IF ~SupportedKey(key)
       THEN /\ call' = [op |-> "get", key |-> key, read |-> "none"]
            /\ resp' = Resolved(UnsupportedError)
            /\ reads' = 0
       ELSE \E r \in ReadOutcomes(configSpecsKey) :
                /\ call' = [op |-> "get", key |-> key, read |-> ReadKind(r)]
                /\ reads' = 1
                /\ resp' = IF r.ok THEN Resolved(GetResponse(key, r.data))
                                   ELSE Rejected(ReadFailure)
    /\ UNCHANGED <<store, configSpecsKey, flag, lastInit>>

(* Variant: set keeps the value it is given under the lookup name. *)
set_writes(key, value, time) ==
    /\ call' = [op |-> "set", key |-> key, read |-> "none"]
    /\ resp' = Resolved(Undefined)
    /\ reads' = 0
    /\ store' = [store EXCEPT ![configSpecsKey] = JStr(value)]
    /\ UNCHANGED <<configSpecsKey, flag, lastInit>>

set(key, value, time) ==
    /\ call' = [op |-> "set", key |-> key, read |-> "none"]
    /\ resp' = Resolved(Undefined)
    /\ reads' = 0
    /\ UNCHANGED <<store, configSpecsKey, flag, lastInit>>

(* Variant: the flag is raised before the read is awaited. *)
initialize_flagBeforeRead ==
    /\ reads' = 1
    /\ \E r \in ReadOutcomes(configSpecsKey) :
          /\ call' = [op |-> "initialize", key |-> "", read |-> ReadKind(r)]
          /\ IF r.ok
             THEN /\ flag' = InitializeFlag(flag, r.data)
                  /\ lastInit' = IF r.data = Undefined THEN "absent" ELSE "present"
                  /\ resp' = Resolved(Undefined)
             ELSE /\ flag' = TRUE
                  /\ lastInit' = "failed"
                  /\ resp' = Rejected(ReadFailure)
    /\ UNCHANGED <<store, configSpecsKey>>

initialize ==
    /\ reads' = 1
    /\ \E r \in ReadOutcomes(configSpecsKey) :
          /\ call' = [op |-> "initialize", key |-> "", read |-> ReadKind(r)]
          /\ IF r.ok
             THEN /\ flag' = InitializeFlag(flag, r.data)
                  /\ lastInit' = IF r.data = Undefined THEN "absent" ELSE "present"
                  /\ resp' = Resolved(Undefined)
             ELSE /\ flag' = flag
                  /\ lastInit' = "failed"
                  /\ resp' = Rejected(ReadFailure)
    /\ UNCHANGED <<store, configSpecsKey>>

shutdown ==
    /\ call' = [op |-> "shutdown", key |-> "", read |-> "none"]
    /\ resp' = Resolved(Undefined)
    /\ reads' = 0
    /\ UNCHANGED <<store, configSpecsKey, flag, lastInit>>

supportsPollingUpdatesFor(key) ==
    /\ call' = [op |-> "supportsPollingUpdatesFor", key |-> key, read |-> "none"]
    /\ resp' = Resolved(JBool(PollingSupport(key, flag)))
    /\ reads' = 0
    /\ UNCHANGED <<store, configSpecsKey, flag, lastInit>>

(* The hosted service changes the item under some name: Statsig's integration
   writes the store on its own (comment of set). *)
StoreUpdate(name, v) ==
    /\ v \in ItemValues(name)
    /\ v # store[name]
    /\ store' = [store EXCEPT ![name] = v]
    /\ call' = [op |-> "storeUpdate", key |-> name, read |-> "none"]
    /\ resp' = NoResp
    /\ reads' = 0
    /\ UNCHANGED <<configSpecsKey, flag, lastInit>>

SetValues == {JSONstringify(v) : v \in {JNum(1), JObj(<<>>)}}
SetTimes == {Undefined, JNum(12)}

----------------------------------------------------------------------------
(* The adapter on its own: any caller, any order of calls. *)
(* The values ../lib/constants may give the renderer's sentinel. *)
GroupParamFallbacks == {"default", "error"}

PageIdle ==
    /\ pc = "idle"
    /\ bucket = "unset"
    /\ props = <<>>
    /\ inFlight = {}
    /\ cookie = "uid"
    /\ displayed = "nothing"

Init ==
    /\ store \in Stores
    /\ configSpecsKey \in Names
    /\ flag = FALSE
    /\ lastInit = "none"
    /\ call = [op |-> "constructor", key |-> configSpecsKey, read |-> "none"]
    /\ resp = NoResp
    /\ reads = 0
    /\ GROUP_PARAM_FALLBACK \in GroupParamFallbacks
    /\ PageIdle

Construct == (\E k \in Names : constructor(k)) /\ UNCHANGED <<pageVars, GROUP_PARAM_FALLBACK>>
Get == (\E k \in Keys : get(k)) /\ UNCHANGED <<pageVars, GROUP_PARAM_FALLBACK>>
Set ==
    /\ \E k \in Keys, v \in SetValues, t \in SetTimes : set(k, v, t)
    /\ UNCHANGED <<pageVars, GROUP_PARAM_FALLBACK>>
Initialize == initialize /\ UNCHANGED <<pageVars, GROUP_PARAM_FALLBACK>>
Shutdown == shutdown /\ UNCHANGED <<pageVars, GROUP_PARAM_FALLBACK>>
SupportsPolling ==
    /\ \E k \in Keys : supportsPollingUpdatesFor(k)
    /\ UNCHANGED <<pageVars, GROUP_PARAM_FALLBACK>>
Remote ==
    /\ \E n \in Names, v \in StoreValues : StoreUpdate(n, v)
    /\ UNCHANGED <<pageVars, GROUP_PARAM_FALLBACK>>

Next == Construct \/ Get \/ Set \/ Initialize \/ Shutdown \/ SupportsPolling \/ Remote

Spec == Init /\ [][Next]_vars

----------------------------------------------------------------------------
(* The page: one request at a time through getServerSideProps, then the
   renderer.  The experimentation SDK is external: its initialize drives the
   adapter (initialize, then get of the config specs), its getConfig yields
   some dynamic config, its flush is asynchronous I/O. *)
UserID == "1234"
ExperimentName == "statsig_example"
Buckets == {"a", "b"}
InstructionalMessage == "Experiment not set up, please read README to set up example."
UndefinedProp == "<undefined>"

(* StatsigNode.getConfig(user, experiment): an empty config when the
   experiment is not set up, else one carrying the allocated bucket. *)
DynamicConfigs(user, experiment) == {<<>>} \cup {[bucket |-> b] : b \in Buckets}

getValue(config, field, fallback) ==
    IF field \in DOMAIN config THEN config[field] ELSE fallback

(* The props object the handler returns. *)
ReturnedProps(b) == <<>>

(* new EdgeConfigDataAdapter(...) and the call of StatsigNode.initialize. *)
Request ==
    /\ pc = "idle"
    /\ constructor(ItemKey)
    /\ pc' = "sdkInitialize"
    /\ inFlight' = inFlight \cup {"initialize"}
    /\ bucket' = "unset"
    /\ props' = <<>>
    /\ displayed' = "nothing"
    /\ UNCHANGED <<cookie, GROUP_PARAM_FALLBACK>>

SdkAdapterInitialize ==
    /\ pc = "sdkInitialize"
    /\ initialize
    /\ IF resp'.outcome = "rejected"
       THEN pc' = "failed" /\ inFlight' = inFlight \ {"initialize"}
       ELSE pc' = "sdkFetch" /\ inFlight' = inFlight
    /\ UNCHANGED <<bucket, props, cookie, displayed, GROUP_PARAM_FALLBACK>>

SdkAdapterGet ==
    /\ pc = "sdkFetch"
    /\ get(ConfigSpecsKeyName)
    /\ pc' = IF resp'.outcome = "rejected" THEN "failed" ELSE "getConfig"
    /\ inFlight' = inFlight \ {"initialize"}
    /\ UNCHANGED <<bucket, props, cookie, displayed, GROUP_PARAM_FALLBACK>>

GetConfig ==
    /\ pc = "getConfig"
    /\ \E config \in DynamicConfigs(UserID, ExperimentName) :
          bucket' = getValue(config, "bucket", "default")
    /\ pc' = "flush"
    /\ UNCHANGED <<store, adapterVars, props, inFlight, cookie, displayed,
                   GROUP_PARAM_FALLBACK>>

(* StatsigNode.flush() is called and the handler returns in the same turn. *)
FlushAndReturn ==
    /\ pc = "flush"
    /\ inFlight' = inFlight \cup {"flush"}
    /\ props' = ReturnedProps(bucket)
    /\ pc' = "returned"
    /\ UNCHANGED <<store, adapterVars, bucket, cookie, displayed, GROUP_PARAM_FALLBACK>>

FlushComplete ==
    /\ "flush" \in inFlight
    /\ inFlight' = inFlight \ {"flush"}
    /\ UNCHANGED <<store, adapterVars, pc, bucket, props, cookie, displayed,
                   GROUP_PARAM_FALLBACK>>

BucketText(b) == IF b = GROUP_PARAM_FALLBACK THEN InstructionalMessage ELSE b

BucketPage ==
    /\ pc = "returned"
    /\ displayed' = BucketText(IF "bucket" \in DOMAIN props THEN props.bucket
                                                           ELSE UndefinedProp)
    /\ pc' = "rendered"
    /\ UNCHANGED <<store, adapterVars, bucket, props, inFlight, cookie,
                   GROUP_PARAM_FALLBACK>>

resetBucket ==
    /\ pc = "rendered"
    /\ cookie' = "none"
    /\ pc' = "idle"
    /\ UNCHANGED <<store, adapterVars, bucket, props, inFlight, displayed,
                   GROUP_PARAM_FALLBACK>>

(* The visitor comes back without resetting (or after a failed request). *)
Revisit ==
    /\ pc \in {"rendered", "failed"}
    /\ pc' = "idle"
    /\ UNCHANGED <<store, adapterVars, bucket, props, inFlight, cookie, displayed,
                   GROUP_PARAM_FALLBACK>>

InitPage == Init /\ configSpecsKey = ItemKey

NextPage ==
    \/ Request
    \/ SdkAdapterInitialize
    \/ SdkAdapterGet
    \/ GetConfig
    \/ FlushAndReturn
    \/ FlushComplete
    \/ BucketPage
    \/ resetBucket
    \/ Revisit
    \/ Remote

SpecPage == InitPage /\ [][NextPage]_vars

----------------------------------------------------------------------------
(* Properties. *)

IsGet(key) == call.op = "get" /\ call.key = key
OnlyError(r) == r.outcome = "resolved" /\ DOMAIN r.value = {"error"}
OnlyResult(r) == r.outcome = "resolved" /\ DOMAIN r.value = {"result"}
Item == store[configSpecsKey]

(* C1: get of any key other than "statsig.cache" answers with a response that
   carries an error and no result, and performs no read of the remote store,
   whatever the store holds and whatever was called before. *)
C1_UnsupportedKeyIsError ==
    (call.op = "get" /\ call.key # "statsig.cache")
        => (OnlyError(resp) /\ reads = 0)

C1_Witness ==
    /\ IsGet(ItemKey)
    /\ configSpecsKey = ItemKey
    /\ Item # Undefined
    /\ flag

(* C2: get("statsig.cache"), when the read finds no item under the configured
   lookup name, answers with the "does not exist" error naming the requested
   key "statsig.cache", and with no result. *)
C2_MissingItemIsNotFound ==
    (IsGet("statsig.cache") /\ call.read = "resolved" /\ Item = Undefined)
        => /\ OnlyError(resp)
           /\ resp.value.error = "key (statsig.cache) does not exist"

C2_Witness ==
    /\ IsGet("statsig.cache")
    /\ configSpecsKey = ItemKey
    /\ Item = Undefined
    /\ store["statsig.cache"] # Undefined
    /\ resp.outcome = "resolved"

(* C3: get("statsig.cache"), when the read finds an item under the configured
   lookup name, answers with a result and no error; the result is the JSON text
   of the item the store holds at that moment (parsing it gives the item back),
   also for null, false, 0 and the empty string; the call reads the store once. *)
C3_PresentItemIsSerialized ==
    (IsGet("statsig.cache") /\ call.read = "resolved" /\ Item # Undefined)
        => /\ OnlyResult(resp)
           /\ reads = 1
           /\ JSONparse(resp.value.result) = Item
           /\ Item = JNull => resp.value.result = <<"n", "u", "l", "l">>
           /\ Item = JBool(FALSE) => resp.value.result = <<"f", "a", "l", "s", "e">>
           /\ Item = JNum(0) => resp.value.result = <<"0">>
           /\ Item = JStr(<<>>) => resp.value.result = <<"\"", "\"">>

C3_Witness ==
    /\ IsGet("statsig.cache")
    /\ configSpecsKey = ItemKey
    /\ Item = JStr(<<"\"">>)
    /\ store["statsig.cache"] # Undefined
    /\ resp.outcome = "resolved"
    /\ resp.value.result = <<"\"", "\\", "\"", "\"">>

(* C4: supportsPollingUpdatesFor("statsig.cache") is true when the most recent
   initialize read a present item (any value the store holds), false when it
   read none, and true for every other key. *)
C4_PollingFollowsLastInitialize ==
    call.op = "supportsPollingUpdatesFor"
        => IF call.key = "statsig.cache"
           THEN /\ lastInit = "present" => resp.value = JBool(TRUE)
                /\ lastInit = "absent" => resp.value = JBool(FALSE)
           ELSE resp.value = JBool(TRUE)

(* C5: set and shutdown complete without failing and change nothing: neither
   the remote store nor the polling flag nor the lookup name, and they read
   nothing; so a later get sees exactly the state it would have seen. *)
C5_SetShutdownChangeNothing ==
    [][call'.op \in {"set", "shutdown"}
          => /\ resp' = Resolved(Undefined)
             /\ reads' = 0
             /\ store' = store
             /\ flag' = flag
             /\ configSpecsKey' = configSpecsKey]_vars

C5_Witness ==
    /\ call.op = "set"
    /\ call.key = "statsig.cache"
    /\ flag
    /\ Item # Undefined

(* C6, as claimed: when the remote read fails, get still completes with a
   response whose error field is set. *)
C6_ReadFailureIsErrorValue ==
    (call.op = "get" /\ call.read = "rejected") => OnlyError(resp)

(* C6, amended: the failures the adapter detects itself (unsupported key, no
   item) are error values on the response; a failing remote read is not caught:
   get and initialize then fail with the read's failure, after one read, and
   leave the adapter's flag and lookup name as they were. *)
C6_FailuresAmended ==
    /\ [](call.op = "get"
            => IF call.read = "rejected"
               THEN resp = Rejected(ReadFailure) /\ reads = 1
               ELSE OnlyResult(resp) \/ OnlyError(resp))
    /\ [](call.op = "initialize"
            => resp = IF call.read = "rejected" THEN Rejected(ReadFailure)
                                                ELSE Resolved(Undefined))
    /\ [][call'.read = "rejected"
             => /\ flag' = flag
                /\ configSpecsKey' = configSpecsKey
                /\ store' = store]_vars

C6_Witness ==
    /\ IsGet("statsig.cache")
    /\ call.read = "rejected"
    /\ resp.outcome = "rejected"
    /\ flag
    /\ Item # Undefined

(* C10: the polling flag is false on a new adapter and false is what
   supportsPollingUpdatesFor("statsig.cache") answers before any initialize;
   only initialize changes it, and only from false to true: no other call and
   no change of the remote store touches it, and a later initialize that finds
   nothing leaves it true. *)
C10_OneShotFlag ==
    /\ [](call.op = "constructor" => ~flag)
    /\ []((call.op = "supportsPollingUpdatesFor" /\ call.key = "statsig.cache"
             /\ lastInit = "none") => resp.value = JBool(FALSE))
    /\ [][call'.op # "constructor"
             => /\ flag => flag'
                /\ flag' # flag => call'.op = "initialize"]_vars

C10_Witness ==
    /\ flag
    /\ lastInit = "absent"
    /\ call.op = "supportsPollingUpdatesFor"
    /\ call.key = "statsig.cache"
    /\ resp.value = JBool(TRUE)

(* C8: the handler has returned its props only after the flush it started has
   completed, and no two I/O operations are in flight at once. *)
C8_FlushAwaitedBeforeReturn ==
    /\ pc = "returned" => inFlight = {}
    /\ Cardinality(inFlight) <= 1

(* C9: the page shows the instructional message when the handler's evaluation
   fell back to its sentinel, and otherwise the bucket the handler evaluated. *)
C9_PageShowsEvaluatedBucket ==
    pc = "rendered"
        => displayed = IF bucket = "default" THEN InstructionalMessage ELSE bucket

====
